---- MODULE Spec2Model ----
(***************************************************************************)
(* Transit detection engine of moon-plane-transit                          *)
(* (src/src/lib/transitDetector.ts, lib/flights.ts, lib/astronomy.ts).     *)
(*                                                                         *)
(* Number representation.  The program computes with IEEE doubles; the     *)
(* model computes with integers in fixed point:                            *)
(*   - angles (latitude, longitude, altitude, azimuth, separation,         *)
(*     angular diameter, maxAngularSeparation) are in tenths of a degree;  *)
(*   - positions lie on a grid of 10 degrees (Grid), half angles on 5      *)
(*     degrees, so that sin and cos are a table lookup (three decimals);   *)
(*   - a result of asin/atan2 is rounded to the nearest grid angle that    *)
(*     has the sign of the exact result, so that every sign test of the    *)
(*     program (altitude < 0) is decided exactly as the program decides;   *)
(*   - Date values are epoch milliseconds, lastUpdate epoch seconds;       *)
(*   - a confidence score is an integer number of 1/ConfOne, and the       *)
(*     double NaN is the value NaN, for which every comparison is false.   *)
(***************************************************************************)
EXTENDS Integers, Sequences, FiniteSets, TLC

\* ------------------------------------------------------------------ bounds
MaxFlights == 2
MaxWindow == 10
MaxTicks == 1
MaxCopies == 2

\* --------------------------------------------------------------- constants
Deg == 10
Grid == 10 * Deg
HalfGrid == 5 * Deg
TrigOne == 1000
ConfUnit == 600
ConfOne == ConfUnit * 10000
\* the doubles NaN and Infinity, and the null reference: values outside the
\* range of every number and record the model computes
NaN == -2000000000
Infinity == 1000000000
Null == [null |-> TRUE]
NullTime == -1
EarthRadiusKm == 6371
MetersPerDegree == (EarthRadiusKm * 31416) \div 1800
timeStep == 5

Abs(x) == IF x < 0 THEN -x ELSE x
Sign(x) == IF x < 0 THEN -1 ELSE IF x > 0 THEN 1 ELSE 0
Max2(a, b) == IF a >= b THEN a ELSE b
Min2(a, b) == IF a <= b THEN a ELSE b
\* x / y rounded to the nearest integer, halves away from zero (y > 0)
RoundDiv(x, y) == Sign(x) * ((2 * Abs(x) + y) \div (2 * y))
\* x rounded to the nearest multiple of g
RoundTo(x, g) == g * RoundDiv(x, g)

\* ------------------------------------------------------------ trigonometry
\* a function given by a rule, as the table of its values
Tabulated(f) == f @@ <<>>

SinTable ==
  <<0, 87, 174, 259, 342, 423, 500, 574, 643, 707,
    766, 819, 866, 906, 940, 966, 985, 996, 1000>>
\* the sine of 0, 5, ..., 355 degrees, times TrigOne
SinCircle ==
  Tabulated([n \in 0..71 |-> IF n <= 18 THEN SinTable[n + 1]
                             ELSE IF n <= 36 THEN SinTable[37 - n]
                             ELSE IF n <= 54 THEN -SinTable[n - 35]
                             ELSE -SinTable[73 - n]])
\* Math.sin of an angle that is a multiple of 5 degrees, times TrigOne
Sin(a) == SinCircle[(a % (360 * Deg)) \div HalfGrid]
Cos(a) == SinCircle[((a + 90 * Deg) % (360 * Deg)) \div HalfGrid]

\* the grid angles g, 2g, ..., 90 degrees are numbered 1, 2, ...; each of the
\* three inverse functions returns the nearest one, found by counting the grid
\* angles the argument lies beyond (the compared quantity is monotone on the grid)
Steps(g) == 1..((90 * Deg) \div g - 1)

\* Math.atan2(y, x) in tenths of a degree on the grid of step g; the result
\* is 0 or 180 degrees exactly when y = 0, and has the sign of y otherwise
Atan2(y, x, g) ==
  IF y = 0 THEN (IF x >= 0 THEN 0 ELSE 180 * Deg)
  ELSE LET k == (Max2(Abs(x), Abs(y)) \div 1000000) + 1
           xs == Abs(x) \div k
           ys == Abs(y) \div k
           q == g * (1 + Cardinality({ i \in Steps(g) :
                  xs * Cos((i + 1) * g) + ys * Sin((i + 1) * g) >
                  xs * Cos(i * g) + ys * Sin(i * g) }))
       IN Sign(y) * (IF x >= 0 THEN q ELSE 180 * Deg - q)

\* Math.asin(v / TrigOne) in tenths of a degree on the grid of step g
Asin(v, g) ==
  IF v = 0 THEN 0
  ELSE Sign(v) * g * (1 + Cardinality({ i \in Steps(g) :
                        2 * Abs(v) > Sin(i * g) + Sin((i + 1) * g) }))

\* the squared sine midway between two neighbouring half-grid angles, doubled
HaversineSteps ==
  Tabulated([i \in Steps(HalfGrid) |->
    Sin(i * HalfGrid) * Sin(i * HalfGrid) +
    Sin((i + 1) * HalfGrid) * Sin((i + 1) * HalfGrid)])

\* 2 * Math.atan2(Math.sqrt(a), Math.sqrt(1 - a)) for a in 1/TrigOne^2: twice
\* the angle whose squared sine is a
HaversineAngle(a) ==
  IF a = 0 THEN 0
  ELSE 2 * HalfGrid *
       (1 + Cardinality({ i \in Steps(HalfGrid) : 2 * a > HaversineSteps[i] }))

\* ---------------------------------------------------------------- geometry
\* the separation with the cosine of the first altitude taken twice
calculateAngularSeparationFirstCosine(alt1, az1, alt2, az2) ==
  LET sinHalfPhi == Sin((alt2 - alt1) \div 2)
      sinHalfTheta == Sin((az2 - az1) \div 2)
      a == sinHalfPhi * sinHalfPhi +
           ((Cos(alt1) * Cos(alt1)) \div TrigOne) * ((sinHalfTheta * sinHalfTheta) \div TrigOne)
  IN HaversineAngle(a)
\* astronomy.ts: great-circle separation of two horizontal positions
calculateAngularSeparation(alt1, az1, alt2, az2) ==
  LET phi1 == alt1
      phi2 == alt2
      deltaTheta == az2 - az1
      sinHalfPhi == Sin((phi2 - phi1) \div 2)
      sinHalfTheta == Sin(deltaTheta \div 2)
      a == sinHalfPhi * sinHalfPhi +
           ((Cos(phi1) * Cos(phi2)) \div TrigOne) * ((sinHalfTheta * sinHalfTheta) \div TrigOne)
  IN HaversineAngle(a)

\* flights.ts: horizontal position of an aircraft as reported
calculateFlightPosition(obs, flight) ==
  LET lat1 == obs.latitude
      lat2 == flight.latitude
      deltaLat == flight.latitude - obs.latitude
      deltaLon == flight.longitude - obs.longitude
      a == Sin(deltaLat \div 2) * Sin(deltaLat \div 2) +
           ((Cos(lat1) * Cos(lat2)) \div TrigOne) *
           ((Sin(deltaLon \div 2) * Sin(deltaLon \div 2)) \div TrigOne)
      c == HaversineAngle(a)
      distanceKm == (c * MetersPerDegree) \div (Deg * 1000)
      y == Sin(deltaLon) * Cos(lat2)
      x == Cos(lat1) * Sin(lat2) - ((Sin(lat1) * Cos(lat2)) \div TrigOne) * Cos(deltaLon)
      azimuth == (Atan2(y, x, Grid) + 360 * Deg) % (360 * Deg)
      altitudeMeters == flight.altitude - obs.elevation
      altitudeAngle == Atan2(altitudeMeters, distanceKm * 1000, Grid)
  IN [flight |-> flight, altitude |-> altitudeAngle, azimuth |-> azimuth,
      distanceKm |-> distanceKm]

\* flights.ts: constant-speed, constant-heading, constant-climb extrapolation
predictFlightPosition(flight, secondsAhead) ==
  LET metersPerSecond == flight.velocity
      distanceMeters == metersPerSecond * secondsAhead
      \* distanceMeters / R, as an angle on the grid
      delta == RoundTo(RoundDiv(distanceMeters * Deg, MetersPerDegree), Grid)
      bearing == flight.heading
      lat1 == flight.latitude
      lon1 == flight.longitude
      lat2 == Asin((Sin(lat1) * Cos(delta) +
                    ((Cos(lat1) * Sin(delta)) \div TrigOne) * Cos(bearing)) \div TrigOne, Grid)
      lon2 == lon1 + Atan2(((Sin(bearing) * Sin(delta)) \div TrigOne) * Cos(lat1),
                           Cos(delta) * TrigOne - Sin(lat1) * Sin(lat2), Grid)
      predictedAltitude == flight.altitude + (flight.verticalRate * secondsAhead)
  IN [latitude |-> lat2, longitude |-> lon2, altitude |-> predictedAltitude]

\* transitDetector.ts: horizontal position of an extrapolated aircraft
calculatePredictedFlightHorizontal(obs, latitude, longitude, altitude) ==
  LET lat1 == obs.latitude
      lat2 == latitude
      deltaLat == latitude - obs.latitude
      deltaLon == longitude - obs.longitude
      a == Sin(deltaLat \div 2) * Sin(deltaLat \div 2) +
           ((Cos(lat1) * Cos(lat2)) \div TrigOne) *
           ((Sin(deltaLon \div 2) * Sin(deltaLon \div 2)) \div TrigOne)
      c == HaversineAngle(a)
      distanceKm == (c * MetersPerDegree) \div (Deg * 1000)
      y == Sin(deltaLon) * Cos(lat2)
      x == Cos(lat1) * Sin(lat2) - ((Sin(lat1) * Cos(lat2)) \div TrigOne) * Cos(deltaLon)
      azimuth == (Atan2(y, x, Grid) + 360 * Deg) % (360 * Deg)
      altitudeMeters == altitude - obs.elevation
      altitudeAngle == Atan2(altitudeMeters, distanceKm * 1000, Grid)
  IN [altitude |-> altitudeAngle, azimuth |-> azimuth]

\* ------------------------------------------------------------------- state
VARIABLES
  observer,   \* the ground observer of the session
  flights,    \* the aircraft snapshot handed to the detector (FlightData[])
  ephem,      \* which ephemeris the celestial position provider follows
  config,     \* TransitDetector.config
  now,        \* Date.now(), epoch milliseconds
  pass,       \* the last detection pass: its arguments and what it returned
  copies,     \* the objects getConfig has returned, as the caller holds them
  call,       \* the last call of the configuration interface or of a helper,
              \* in the sessions that follow these calls
  db,         \* MoonTransitDB: the three tables of the local database
  calls,      \* the calls of localDB made so far, each with its position
  tracking,   \* useFlightTracking: props, state, refs, timers, fetches
  geo         \* useGeolocation: state, ref and the position watch

vars == <<observer, flights, ephem, config, now, pass, copies, call,
          db, calls, tracking, geo>>

\* the variables of the detector and of its sessions
detector == <<observer, flights, ephem, config, now, pass, copies, call>>

\* MoonTransitDB as it is created: no record
EmptyDatabase ==
  [userLocations |-> {}, transitDetections |-> {}, userPreferences |-> {}]

\* the two asynchronous contexts that call localDB, each of which makes one
\* call in a session
Callers == {"first", "second"}

\* a context that has made no call
Idle == [pc |-> "idle"]

\* the observer prop or a ref that is null
NoObserver == [none |-> TRUE]

\* no event of the hook yet
NoEvent == [kind |-> "none"]

\* useFlightTracking before its first render: useState([]), useState(null),
\* useRef(null); no timer and no fetch
TrackingStart ==
  [mounted |-> FALSE, unmounted |-> FALSE,
   observer |-> NoObserver, radiusKm |-> 50, dataSource |-> "adsb-one",
   intervalRef |-> 0, lastObserverRef |-> NoObserver, cleanup |-> FALSE,
   timers |-> {}, requests |-> {},
   flights |-> <<>>, flightPositions |-> <<>>, error |-> FALSE, loading |-> FALSE,
   last |-> NoEvent]

\* useGeolocation before its first render: useState(null), useState(null),
\* useState(true), useRef(null)
GeolocationStart ==
  [mounted |-> FALSE, watching |-> FALSE, observer |-> NoObserver, error |-> "null",
   loading |-> TRUE, lastPositionRef |-> NoObserver, last |-> NoEvent]

T0 == 100 * 1000
TickMs == 15 * 1000

DEFAULT_CONFIG ==
  [maxAngularSeparation |-> 5, predictionWindowSeconds |-> 600,
   minConfidenceScore |-> (3 * ConfOne) \div 10]

\* { ...partial, ...base }: the spreads in the other order
MergeBaseLast(base, partial) == [k \in DOMAIN base |-> base[k]]
\* { ...base, ...partial }
Merge(base, partial) ==
  [k \in DOMAIN base |-> IF k \in DOMAIN partial THEN partial[k] ELSE base[k]]

\* ------------------------------------------------------------------ inputs
Observers == { [latitude |-> 0, longitude |-> 0, elevation |-> 0] }

Flight(id, lon, alt, v, hdg, vr, upd) ==
  [icao24 |-> id, latitude |-> 0, longitude |-> lon, altitude |-> alt,
   velocity |-> v, heading |-> hdg, verticalRate |-> vr, lastUpdate |-> upd]

\* cruising 10 degrees east of the observer, seen 10 degrees up
FlightSteady == Flight("AAL001", Grid, 10000, 250, 270 * Deg, 0, 95)
\* stationary at the observer's elevation, with a sinking altitude reading
FlightGround == Flight("GND003", Grid, 0, 0, 270 * Deg, -10, 75)
\* below the observer's horizontal plane now, above it later in the window
FlightBelow == Flight("LOW004", Grid, -50, 250, 270 * Deg, 10, 95)
\* an implausible speed reading: one grid step of longitude per sample
FlightFast == Flight("FST005", -Grid, 10000, (Grid * MetersPerDegree) \div (Deg * timeStep),
                     90 * Deg, 0, 60)

FlightPool == {FlightSteady, FlightGround, FlightBelow, FlightFast}

\* the aircraft lists of at most MaxFlights aircraft, each aircraft once
FlightLists ==
  { l \in UNION { [1..n -> FlightPool] : n \in 0..MaxFlights } :
      \A i, j \in 1..Len(l) : i # j => l[i] # l[j] }

Body(alt, az, diam) == [altitude |-> alt, azimuth |-> az, angularDiameter |-> diam]
\* the provider has no value for the instant: its call throws
Unavailable == [unavailable |-> TRUE]

\* the body's position at sample k (every timeStep seconds from T0) of a track
TrackPosition(track, k) ==
  CASE track = "steady"  -> Body(Grid, 90 * Deg, 5)
    [] track = "setting" -> IF k <= 0 THEN Body(Grid, 90 * Deg, 2 * Grid)
                            ELSE IF k = 1 THEN Body(0, 90 * Deg, 2 * Grid)
                            ELSE Body(-Grid, 90 * Deg, 2 * Grid)
    [] track = "rising"  -> IF k <= 0 THEN Body(-Grid, 90 * Deg, 5)
                            ELSE IF k = 1 THEN Body(0, 90 * Deg, 5)
                            ELSE Body(Grid, 90 * Deg, 5)
    [] track = "sinking" -> IF k <= 0 THEN Body(4 * Grid, 90 * Deg, 5)
                            ELSE IF k = 1 THEN Body(3 * Grid, 90 * Deg, 2 * Grid)
                            ELSE Body(2 * Grid, 90 * Deg, 2 * Grid)
    [] track = "down"    -> IF k <= 0 THEN Body(Grid, 90 * Deg, 2 * Grid)
                            ELSE Body(-Grid, 90 * Deg, 2 * Grid)
    [] track = "gap"     -> IF k = 2 THEN Unavailable ELSE Body(Grid, 90 * Deg, 5)
    [] OTHER             -> IF k <= 0 THEN Body(2 * Grid, 90 * Deg, 2 * Grid)
                            ELSE IF k = 1 THEN Body(-Grid, 90 * Deg, 5)
                            ELSE Body(Grid, 90 * Deg, 5)

EphemerisCases ==
  { [Moon |-> "steady", Sun |-> "sinking"], [Moon |-> "sinking", Sun |-> "steady"],
    [Moon |-> "setting", Sun |-> "dipping"], [Moon |-> "rising", Sun |-> "setting"],
    [Moon |-> "gap", Sun |-> "down"] }

\* the "current time" values a caller passes to a pass
PassedTimes == { T0, T0 + timeStep * 1000 }
\* the instants at which the caller read the body's position before that
ReadTimes(currentTime) == { t \in PassedTimes : t <= currentTime }

\* the partial configurations given to the constructor and to setConfig
ConfigPartials ==
  { [predictionWindowSeconds |-> 10],
    [maxAngularSeparation |-> 2 * Grid, predictionWindowSeconds |-> 0],
    [maxAngularSeparation |-> 0, predictionWindowSeconds |-> 10,
     minConfidenceScore |-> 0],
    [predictionWindowSeconds |-> Infinity] }

\* the seconds-ahead values a search can sample
SampleSeconds == { s \in 0..MaxWindow : s % timeStep = 0 }

\* The three position functions are pure: their values on the model's inputs
\* are tabulated once.
\* predictFlightPosition(flight, seconds)
PredictedPositions ==
  Tabulated([f \in FlightPool |->
    Tabulated([s \in SampleSeconds |-> predictFlightPosition(f, s)])])
\* calculatePredictedFlightHorizontal(observer, predictedPosition ...)
horizontalOf(obs, predictedPosition) ==
  calculatePredictedFlightHorizontal(obs, predictedPosition.latitude,
    predictedPosition.longitude, predictedPosition.altitude)
PredictedHorizontals ==
  Tabulated([o \in Observers |-> Tabulated([f \in FlightPool |->
    Tabulated([s \in SampleSeconds |-> horizontalOf(o, PredictedPositions[f][s])])])])
\* calculateFlightPosition(observer, flight)
FlightPositions ==
  Tabulated([o \in Observers |->
    Tabulated([f \in FlightPool |-> calculateFlightPosition(o, f)])])

\* ---------------------------------------------------------------- provider
\* astronomy.ts calculateMoonPosition (astronomy-engine ephemeris)
calculateMoonPosition(obs, date) ==
  TrackPosition(ephem["Moon"], (date - T0) \div (timeStep * 1000))
calculateSunPosition(obs, date) ==
  TrackPosition(ephem["Sun"], (date - T0) \div (timeStep * 1000))

\* ---------------------------------------------------------------- detector
\* a >= b on doubles: false when either side is NaN
GreaterEq(a, b) == a # NaN /\ b # NaN /\ a >= b

\* 1 - (angularSeparation / maxAngularSeparation), in 1/ConfUnit.  A division
\* by zero gives NaN for 0 / 0 and an infinite quotient otherwise.
separationFactor(angularSeparation) ==
  IF config.maxAngularSeparation = 0
  THEN (IF angularSeparation = 0 THEN NaN
        ELSE IF angularSeparation > 0 THEN -Infinity ELSE Infinity)
  ELSE ((config.maxAngularSeparation - angularSeparation) * ConfUnit)
         \div config.maxAngularSeparation

\* the 1.2 bonus of a pass within the body's disk, in tenths
diskFactor(angularSeparation, moonPosition) ==
  IF 2 * angularSeparation <= moonPosition.angularDiameter THEN 12 ELSE 10

speedFactor(flight) ==
  IF flight.velocity > 0 /\ flight.velocity < 1000 THEN 10 ELSE 8

\* (Date.now() / 1000) - flight.lastUpdate, in milliseconds
dataAge(flight) == now - flight.lastUpdate * 1000

freshnessFactor(flight) ==
  IF dataAge(flight) < 10 * 1000 THEN 10
  ELSE IF dataAge(flight) < 30 * 1000 THEN 9 ELSE 7

visibilityFactor(flightPosition) ==
  IF flightPosition.altitude > 10 * Deg THEN 11
  ELSE IF flightPosition.altitude > 5 * Deg THEN 10 ELSE 8

\* the product returned as it is
clampConfidenceOmitted(confidence) == confidence
\* Math.min(Math.max(confidence, 0), 1): NaN stays NaN
clampConfidence(confidence) ==
  IF confidence = NaN THEN NaN ELSE Min2(Max2(confidence, 0), ConfOne)

calculateConfidence(angularSeparation, flight, moonPosition, flightPosition) ==
  LET base == separationFactor(angularSeparation)
      weights == diskFactor(angularSeparation, moonPosition) * speedFactor(flight) *
                 freshnessFactor(flight) * visibilityFactor(flightPosition)
      confidence == IF base = NaN THEN NaN
                    ELSE IF Abs(base) = Infinity THEN Sign(base) * Infinity
                    ELSE base * weights
  IN clampConfidence(confidence)

\* the loop condition with the window's last sample left out
withinWindowExclusive(seconds) == seconds < config.predictionWindowSeconds
\* the loop condition of the window search
withinWindow(seconds) == seconds <= config.predictionWindowSeconds

\* a sample the search does not consider
belowHorizon(position) == position.altitude < 0

\* the running minimum replaced on an equal separation too
updateClosestOnTie(st, separation, futureTime, futureFlightPosition) ==
  IF separation <= st.closestSeparation
  THEN [st EXCEPT !.closestSeparation = separation,
                  !.closestTime = futureTime,
                  !.closestFlightAlt = futureFlightPosition.altitude,
                  !.closestFlightAz = futureFlightPosition.azimuth]
  ELSE st
\* the running minimum after a valid sample
updateClosest(st, separation, futureTime, futureFlightPosition) ==
  IF separation < st.closestSeparation
  THEN [st EXCEPT !.closestSeparation = separation,
                  !.closestTime = futureTime,
                  !.closestFlightAlt = futureFlightPosition.altitude,
                  !.closestFlightAz = futureFlightPosition.azimuth]
  ELSE st

\* the loop's body without the test of the body's altitude
considerSampleBodyUnchecked(st, futureTime, futureBodyPosition, futureFlightPosition) ==
  IF belowHorizon(futureFlightPosition) THEN st
  ELSE updateClosest(st,
         calculateAngularSeparation(futureBodyPosition.altitude, futureBodyPosition.azimuth,
           futureFlightPosition.altitude, futureFlightPosition.azimuth),
         futureTime, futureFlightPosition)
\* the search loop's body once the positions of the sample are known
considerSample(st, futureTime, futureBodyPosition, futureFlightPosition) ==
  IF belowHorizon(futureBodyPosition) THEN st
  ELSE IF belowHorizon(futureFlightPosition) THEN st
  ELSE updateClosest(st,
         calculateAngularSeparation(futureBodyPosition.altitude, futureBodyPosition.azimuth,
           futureFlightPosition.altitude, futureFlightPosition.azimuth),
         futureTime, futureFlightPosition)

\* the extrapolation and the provider call of a sample, as the pass records them
recordCalls(st, flight, seconds, futureTime) ==
  [st EXCEPT !.extrapolations = Append(@, <<flight.icao24, seconds>>),
             !.providerCalls = Append(@, <<flight.icao24, futureTime>>)]

\* body === 'Moon' ? calculateMoonPosition(...) : calculateSunPosition(...)
calculateBodyPosition(body, obs, futureTime) ==
  IF body = "Moon" THEN calculateMoonPosition(obs, futureTime)
  ELSE calculateSunPosition(obs, futureTime)

\* the search loop's body from the provider's return on: an exception of the
\* provider is not caught, and ends the search
afterProviderCall(st, futureTime, futureBodyPosition, futureFlightPosition) ==
  IF futureBodyPosition = Unavailable THEN [st EXCEPT !.thrown = TRUE]
  ELSE considerSample(st, futureTime, futureBodyPosition, futureFlightPosition)

\* the body of the search loop for one sample
searchStep(obs, flight, body, currentTime, seconds, st) ==
  afterProviderCall(recordCalls(st, flight, seconds, currentTime + seconds * 1000),
                    currentTime + seconds * 1000,
                    calculateBodyPosition(body, obs, currentTime + seconds * 1000),
                    PredictedHorizontals[obs][flight][seconds])

\* seconds <= Infinity holds for every seconds: the loop is left only by an
\* exception, and goes on past the samples the model follows
endlessWindow == config.predictionWindowSeconds = Infinity

\* the loop left by break, where the code has continue, at a sample below
\* the horizon
RECURSIVE searchWindowEndedBySkip(_, _, _, _, _, _)
searchWindowEndedBySkip(obs, flight, body, currentTime, seconds, st) ==
  IF st.thrown THEN st
  ELSE IF endlessWindow /\ seconds > MaxWindow THEN [st EXCEPT !.endless = TRUE]
  ELSE IF withinWindow(seconds)
  THEN IF /\ calculateBodyPosition(body, obs, currentTime + seconds * 1000) # Unavailable
          /\ \/ belowHorizon(calculateBodyPosition(body, obs, currentTime + seconds * 1000))
             \/ belowHorizon(PredictedHorizontals[obs][flight][seconds])
       THEN searchStep(obs, flight, body, currentTime, seconds, st)
       ELSE searchWindowEndedBySkip(obs, flight, body, currentTime, seconds + timeStep,
                                    searchStep(obs, flight, body, currentTime, seconds, st))
  ELSE st

\* the for loop of predictTransit
RECURSIVE searchWindow(_, _, _, _, _, _)
searchWindow(obs, flight, body, currentTime, seconds, st) ==
  IF st.thrown THEN st
  ELSE IF endlessWindow /\ seconds > MaxWindow THEN [st EXCEPT !.endless = TRUE]
  ELSE IF withinWindow(seconds)
  THEN searchWindow(obs, flight, body, currentTime, seconds + timeStep,
                    searchStep(obs, flight, body, currentTime, seconds, st))
  ELSE st

\* the variables of predictTransit before the loop
searchStart ==
  [closestSeparation |-> Infinity, closestTime |-> NullTime,
   closestFlightAlt |-> 0, closestFlightAz |-> 0,
   extrapolations |-> <<>>, providerCalls |-> <<>>, thrown |-> FALSE,
   endless |-> FALSE]

\* timeToTransit counted from the clock instead of from currentTime
searchResultSinceClock(flight, currentFlightPosition, body, bodyPosition, currentTime, st) ==
  [prediction |->
     IF st.thrown \/ st.endless THEN Null
     ELSE IF st.closestTime = NullTime \/ st.closestSeparation > config.maxAngularSeparation
     THEN Null
     ELSE [flight |-> flight, transitTime |-> st.closestTime,
           angularSeparation |-> st.closestSeparation,
           confidenceScore |-> calculateConfidence(st.closestSeparation, flight,
                                 bodyPosition, currentFlightPosition),
           bodyName |-> body,
           bodyAltitude |-> bodyPosition.altitude,
           bodyAzimuth |-> bodyPosition.azimuth,
           flightAltitude |-> st.closestFlightAlt,
           flightAzimuth |-> st.closestFlightAz,
           timeToTransit |-> (st.closestTime - now) \div 1000],
   extrapolations |-> st.extrapolations,
   providerCalls |-> st.providerCalls,
   thrown |-> st.thrown,
   endless |-> st.endless]

\* what predictTransit returns after the loop (prediction, or Null), with
\* the calls the loop made; nothing is returned when the provider has thrown
\* or the loop does not end
searchResult(flight, currentFlightPosition, body, bodyPosition, currentTime, st) ==
  [prediction |->
     IF st.thrown \/ st.endless THEN Null
     ELSE IF st.closestTime = NullTime \/ st.closestSeparation > config.maxAngularSeparation
     THEN Null
     ELSE [flight |-> flight, transitTime |-> st.closestTime,
           angularSeparation |-> st.closestSeparation,
           confidenceScore |-> calculateConfidence(st.closestSeparation, flight,
                                 bodyPosition, currentFlightPosition),
           bodyName |-> body,
           bodyAltitude |-> bodyPosition.altitude,
           bodyAzimuth |-> bodyPosition.azimuth,
           flightAltitude |-> st.closestFlightAlt,
           flightAzimuth |-> st.closestFlightAz,
           timeToTransit |-> (st.closestTime - currentTime) \div 1000],
   extrapolations |-> st.extrapolations,
   providerCalls |-> st.providerCalls,
   thrown |-> st.thrown,
   endless |-> st.endless]

predictTransit(obs, flight, currentFlightPosition, body, bodyPosition, currentTime) ==
  searchResult(flight, currentFlightPosition, body, bodyPosition, currentTime,
               searchWindow(obs, flight, body, currentTime, 0, searchStart))

\* the precondition left out
skipFlightNever(flightPosition) == FALSE
\* the precondition of the search: the aircraft is skipped
skipFlight(flightPosition) == flightPosition.altitude < 0

\* the filter of the aggregate
acceptPrediction(prediction) ==
  prediction # Null /\ GreaterEq(prediction.confidenceScore, config.minConfidenceScore)

\* Array.prototype.sort with (a, b) => a.timeToTransit - b.timeToTransit (stable)
RECURSIVE insertSorted(_, _)
insertSorted(sorted, p) ==
  IF sorted = <<>> THEN <<p>>
  ELSE IF sorted[Len(sorted)].timeToTransit - p.timeToTransit <= 0
       THEN Append(sorted, p)
       ELSE Append(insertSorted(SubSeq(sorted, 1, Len(sorted) - 1), p), sorted[Len(sorted)])

RECURSIVE sortFrom(_, _, _)
sortFrom(predictions, i, sorted) ==
  IF i > Len(predictions) THEN sorted
  ELSE sortFrom(predictions, i + 1, insertSorted(sorted, predictions[i]))

\* the predictions left in the order of the aircraft list
sortPredictionsOmitted(predictions) == predictions
sortPredictions(predictions) == sortFrom(predictions, 1, <<>>)

\* an accepted prediction pushed twice
collectPushedTwice(acc, found) ==
  [acc EXCEPT !.predictions = IF acceptPrediction(found.prediction)
                              THEN Append(Append(@, found.prediction), found.prediction)
                              ELSE @,
              !.extrapolations = @ \o found.extrapolations,
              !.providerCalls = @ \o found.providerCalls,
              !.thrown = found.thrown,
              !.endless = found.endless]
\* the loop's body after the search: the filter and the push
collect(acc, found) ==
  [acc EXCEPT !.predictions = IF acceptPrediction(found.prediction)
                              THEN Append(@, found.prediction)
                              ELSE @,
              !.extrapolations = @ \o found.extrapolations,
              !.providerCalls = @ \o found.providerCalls,
              !.thrown = found.thrown,
              !.endless = found.endless]

\* the loop's body once the aircraft's current position is known
visitFlight(body, obs, flight, flightPosition, bodyPosition, currentTime, acc) ==
  IF skipFlight(flightPosition) THEN acc
  ELSE collect(acc, predictTransit(obs, flight, flightPosition, body,
                                   bodyPosition, currentTime))

\* one iteration of the loop over the aircraft list
detectStep(body, obs, flight, bodyPosition, currentTime, acc) ==
  visitFlight(body, obs, flight, FlightPositions[obs][flight], bodyPosition,
              currentTime, acc)

RECURSIVE detectLoop(_, _, _, _, _, _, _)
detectLoop(body, obs, list, bodyPosition, currentTime, i, acc) ==
  IF i > Len(list) \/ acc.thrown \/ acc.endless THEN acc
  ELSE detectLoop(body, obs, list, bodyPosition, currentTime, i + 1,
                  detectStep(body, obs, list[i], bodyPosition, currentTime, acc))

\* what a pass starts from: a new empty list of predictions, and the
\* objects it was given
passStart(obs, list, bodyPosition) ==
  [predictions |-> <<>>, extrapolations |-> <<>>, providerCalls |-> <<>>,
   thrown |-> FALSE, endless |-> FALSE,
   observer |-> obs, flights |-> list, bodyPosition |-> bodyPosition]

\* a pass that takes the aircraft off the list it was given
detectBodyTransitsConsumingInput(body, obs, list, bodyPosition, currentTime) ==
  [detectLoop(body, obs, list, bodyPosition, currentTime, 1,
              passStart(obs, list, bodyPosition))
     EXCEPT !.predictions = sortPredictions(@), !.flights = <<>>]
\* the predictions returned, with the extrapolations and provider calls made
\* and the objects given to the pass as it leaves them
detectBodyTransits(body, obs, list, bodyPosition, currentTime) ==
  [detectLoop(body, obs, list, bodyPosition, currentTime, 1,
              passStart(obs, list, bodyPosition))
     EXCEPT !.predictions = sortPredictions(@)]

\* ----------------------------------------------------------------- actions
NoPass == [done |-> FALSE, endless |-> FALSE]
\* the program is in a pass that does not end
Hung == pass.endless
NoCall == [name |-> "none"]

\* the application before anything but the detector is used
AppStart ==
  /\ db = EmptyDatabase
  /\ calls = [c \in Callers |-> Idle]
  /\ tracking = TrackingStart
  /\ geo = GeolocationStart

\* new TransitDetector(partial)
Construct(partial) == config = Merge(DEFAULT_CONFIG, partial)

Init ==
  /\ observer \in Observers
  /\ flights \in FlightLists
  /\ ephem \in EphemerisCases
  /\ \E partial \in ConfigPartials \cup {<<>>} : Construct(partial)
  /\ now = T0
  /\ pass = NoPass
  /\ copies = <<>>
  /\ call = NoCall
  /\ AppStart

\* the wall clock advances
Tick ==
  /\ now < T0 + MaxTicks * TickMs
  /\ now' = now + TickMs
  /\ UNCHANGED <<observer, flights, ephem, config, pass, copies, call, db, calls, tracking, geo>>

\* the objects the caller holds once this.config is a new object: none of
\* them is this.config
Detached(held) == [i \in DOMAIN held |-> [held[i] EXCEPT !.shared = FALSE]]

\* setConfig; the recorded pass was made under the previous configuration
SetConfig(partial) ==
  /\ ~ Hung
  /\ config' = Merge(config, partial)
  /\ pass' = NoPass
  /\ copies' = Detached(copies)
  /\ call' = IF call = NoCall THEN NoCall
             ELSE [name |-> "setConfig", partial |-> partial, before |-> config]
  /\ UNCHANGED <<observer, flights, ephem, now, db, calls, tracking, geo>>

\* a detection pass on the session's observer and aircraft snapshot; a pass
\* the provider's exception has ended returns no list, and a pass whose
\* search does not end is never done
Detect(body, bodyPosition, currentTime) ==
  /\ ~ Hung
  /\ config.predictionWindowSeconds <= MaxWindow \/ endlessWindow
  /\ \E r \in {detectBodyTransits(body, observer, flights, bodyPosition, currentTime)} :
       /\ pass' = [done |-> ~ r.endless, endless |-> r.endless,
                   body |-> body, bodyPosition |-> r.bodyPosition,
                   currentTime |-> currentTime, now |-> now,
                   returned |-> ~ r.thrown /\ ~ r.endless,
                   out |-> IF r.thrown \/ r.endless THEN <<>> ELSE r.predictions,
                   extrapolations |-> r.extrapolations,
                   providerCalls |-> r.providerCalls]
       /\ observer' = r.observer
       /\ flights' = r.flights
  /\ UNCHANGED <<ephem, config, now, copies, call, db, calls, tracking, geo>>

\* detectTransits(observer, flights, moonPosition, currentTime)
DetectTransits ==
  \E currentTime \in PassedTimes : \E positionTime \in ReadTimes(currentTime) :
    Detect("Moon", calculateMoonPosition(observer, positionTime), currentTime)

DetectMoonTransits ==
  \E currentTime \in PassedTimes : \E positionTime \in ReadTimes(currentTime) :
    Detect("Moon", calculateMoonPosition(observer, positionTime), currentTime)

DetectSunTransits ==
  \E currentTime \in PassedTimes : \E positionTime \in ReadTimes(currentTime) :
    Detect("Sun", calculateSunPosition(observer, positionTime), currentTime)

Next ==
  \/ Tick
  \/ \E partial \in ConfigPartials : SetConfig(partial)
  \/ DetectTransits
  \/ DetectMoonTransits
  \/ DetectSunTransits

Spec == Init /\ [][Next]_vars

\* ------------------------------------------- the configuration interface
\* getConfig returning this.config itself
getConfigAliased == [shared |-> TRUE, value |-> config]
\* { ...this.config }: a new object with the values of the fields; shared
\* tells whether the object is this.config
getConfig == [shared |-> FALSE, value |-> config]

GetConfig ==
  /\ ~ Hung
  /\ Len(copies) < MaxCopies
  /\ copies' = Append(copies, getConfig)
  /\ call' = [name |-> "getConfig", before |-> config]
  /\ UNCHANGED <<observer, flights, ephem, config, now, pass, db, calls, tracking, geo>>

\* what the caller writes to an object it was returned
Modifications == { [field |-> "predictionWindowSeconds", value |-> 5] }

\* the caller assigns a field of the i-th object it holds: the assignment
\* reaches every reference to that object
ModifyReturned(i, field, value) ==
  /\ i \in DOMAIN copies
  /\ copies' = [j \in DOMAIN copies |->
                  IF j = i \/ (copies[i].shared /\ copies[j].shared)
                  THEN [copies[j] EXCEPT !.value[field] = value]
                  ELSE copies[j]]
  /\ config' = IF copies[i].shared THEN [config EXCEPT ![field] = value] ELSE config
  /\ call' = [name |-> "modify", before |-> config]
  /\ UNCHANGED <<observer, flights, ephem, now, pass, db, calls, tracking, geo>>

\* a session that constructs a detector and follows its configuration
ConfigInit ==
  /\ observer \in Observers
  /\ flights = <<>>
  /\ ephem = [Moon |-> "steady", Sun |-> "sinking"]
  /\ \E partial \in ConfigPartials \cup {<<>>} :
       /\ Construct(partial)
       /\ call = [name |-> "constructor", partial |-> partial, before |-> DEFAULT_CONFIG]
  /\ now = T0
  /\ pass = NoPass
  /\ copies = <<>>
  /\ AppStart

ConfigNext ==
  \/ \E partial \in ConfigPartials : SetConfig(partial)
  \/ GetConfig
  \/ \E i \in 1..MaxCopies : \E m \in Modifications : ModifyReturned(i, m.field, m.value)

ConfigSpec == ConfigInit /\ [][ConfigNext]_vars

\* ------------------------------------------------------------- the helpers
\* a session that only calls an exported helper: a detector with the default
\* configuration that makes no pass
HelperInit ==
  /\ observer \in Observers
  /\ flights = <<>>
  /\ ephem = [Moon |-> "steady", Sun |-> "sinking"]
  /\ Construct(<<>>)
  /\ now = T0
  /\ pass = NoPass
  /\ copies = <<>>
  /\ AppStart

\* seconds are in tenths of a second in formatTimeToTransit
SecondUnit == 10

\* Math.round of a number of tenths that is not negative
Round(tenths) == (tenths + SecondUnit \div 2) \div SecondUnit

\* formatTimeToTransit: the template string as the sequence of its numbers
\* and unit letters
formatTimeToTransit(seconds) ==
  IF seconds < 60 * SecondUnit THEN <<Round(seconds), "s">>
  ELSE IF seconds < 3600 * SecondUnit
  THEN <<seconds \div (60 * SecondUnit), "m", Round(seconds % (60 * SecondUnit)), "s">>
  ELSE <<seconds \div (3600 * SecondUnit), "h",
         (seconds % (3600 * SecondUnit)) \div (60 * SecondUnit), "m">>

\* the arguments: whole seconds about the two thresholds, and fractions
FormatSeconds ==
  { whole * SecondUnit + tenths :
      whole \in {0, 30, 45, 59, 60, 90, 119, 125, 3540, 3599, 3600, 3900, 7380},
      tenths \in 0..(SecondUnit - 1) }

FormatInit ==
  /\ HelperInit
  /\ \E seconds \in FormatSeconds :
       call = [name |-> "formatTimeToTransit", seconds |-> seconds, returned |-> FALSE]

FormatTimeToTransit ==
  /\ call.name = "formatTimeToTransit"
  /\ ~ call.returned
  /\ call' = [name |-> "formatTimeToTransit", seconds |-> call.seconds, returned |-> TRUE,
              text |-> formatTimeToTransit(call.seconds)]
  /\ UNCHANGED <<observer, flights, ephem, config, now, pass, copies, db, calls, tracking, geo>>

FormatSpec == FormatInit /\ [][FormatTimeToTransit]_vars

\* the horizontal positions given to calculateAngularSeparation
HorizontalPositions ==
  { [altitude |-> alt, azimuth |-> az] :
      alt \in {-9 * Grid, -Grid, 0, Grid, 4 * Grid, 9 * Grid},
      az \in {0, Grid, 9 * Grid, 18 * Grid, 35 * Grid} }

SeparationInit ==
  /\ HelperInit
  /\ \E a \in HorizontalPositions : \E b \in HorizontalPositions :
       call = [name |-> "calculateAngularSeparation", a |-> a, b |-> b, returned |-> FALSE]

\* the separation taken in both orders, and of each position with itself
CalculateAngularSeparation ==
  /\ call.name = "calculateAngularSeparation"
  /\ ~ call.returned
  /\ call' = [name |-> "calculateAngularSeparation", a |-> call.a, b |-> call.b,
              returned |-> TRUE,
              ab |-> calculateAngularSeparation(call.a.altitude, call.a.azimuth,
                                                call.b.altitude, call.b.azimuth),
              ba |-> calculateAngularSeparation(call.b.altitude, call.b.azimuth,
                                                call.a.altitude, call.a.azimuth),
              aa |-> calculateAngularSeparation(call.a.altitude, call.a.azimuth,
                                                call.a.altitude, call.a.azimuth)]
  /\ UNCHANGED <<observer, flights, ephem, config, now, pass, copies, db, calls, tracking, geo>>

SeparationSpec == SeparationInit /\ [][CalculateAngularSeparation]_vars

\* ------------------------------------------------------ the local database
MaxRecords == 2

\* the user ids of the records: the id in this browser's localStorage
\* (getCurrentUserId), which the application passes to every call, and the
\* id of records another session has left
CurrentUser == "user-a"
Users == {CurrentUser, "user-b"}

\* a session in which the detector is constructed and not used
DetectorStart ==
  /\ observer \in Observers
  /\ flights = <<>>
  /\ ephem = [Moon |-> "steady", Sun |-> "sinking"]
  /\ Construct(<<>>)
  /\ now = T0
  /\ pass = NoPass
  /\ copies = <<>>
  /\ call = NoCall

\* the userLocations tables that inserts make: keys 1..n of ++id
LocationTables ==
  UNION { { { [id |-> k, user_id |-> f[k][1], is_default |-> f[k][2]] : k \in 1..n } :
            f \in [1..n -> Users \X BOOLEAN] } : n \in 0..MaxRecords }

\* the transitDetections tables: at most a detection of each user
DetectionTables ==
  { { [id |-> IF u = CurrentUser THEN 2 ELSE 1, user_id |-> u] : u \in held } :
      held \in SUBSET Users }

\* the userPreferences tables: at most a record of each user (&user_id)
PreferenceTables == { { [user_id |-> u] : u \in held } : held \in SUBSET Users }

\* the databases the calls find
Databases ==
  { [userLocations |-> l, transitDetections |-> d, userPreferences |-> q] :
      l \in LocationTables, d \in DetectionTables, q \in PreferenceTables }

\* table.where('user_id').equals(userId)
whereUser(table, userId) == { r \in table : r.user_id = userId }

\* a modify that changes no record
modifyNothing(table, userId) == table
\* table.where('user_id').equals(userId).modify({ is_default: false })
modifyDefaultFalse(table, userId) ==
  { IF r.user_id = userId THEN [r EXCEPT !.is_default = FALSE] ELSE r : r \in table }

\* table.update(locationId, { is_default: true, updated_at }): the record of
\* that key, if there is one
updateDefaultTrue(table, locationId) ==
  { IF r.id = locationId THEN [r EXCEPT !.is_default = TRUE] ELSE r : r \in table }

\* a delete of every record of the table
deleteEvery(table, userId) == {}
\* table.where('user_id').equals(userId).delete()
deleteOf(table, userId) == { r \in table : r.user_id # userId }

\* userPreferences.delete(userId): the record of that primary key
deleteKey(table, userId) == { r \in table : r.user_id # userId }

\* the data of isFirstTime(userId)
isFirstTime(userId) ==
  /\ Cardinality(whereUser(db.userLocations, userId)) = 0
  /\ Cardinality(whereUser(db.transitDetections, userId)) = 0
  /\ ~ \E r \in db.userPreferences : r.user_id = userId

\* the context is in a call that has not returned
InCall(c) == calls[c].pc \notin {"idle", "returned"}

\* the calls after context c has begun a call: a call in progress in the
\* other context overlaps it
Started(c, name, userId, locationId, pc) ==
  [k \in Callers |->
     IF k = c
     THEN [name |-> name, userId |-> userId, locationId |-> locationId,
           pc |-> pc, error |-> FALSE, before |-> db, disturbed |-> FALSE,
           overlapped |-> \E o \in Callers \ {c} : InCall(o)]
     ELSE IF InCall(k) THEN [calls[k] EXCEPT !.overlapped = TRUE]
     ELSE calls[k]]

\* the calls after a step of the call of context c, which goes on at pc (or
\* has returned): the call of the other context learns of a write
Stepped(c, pc, error, wrote) ==
  [k \in Callers |->
     IF k = c THEN [calls[k] EXCEPT !.pc = pc, !.error = error]
     ELSE IF wrote /\ calls[k] # Idle THEN [calls[k] EXCEPT !.disturbed = TRUE]
     ELSE calls[k]]

\* setDefault(userId, locationId) is called, with the key of a location the
\* table holds at the call (of any user: the key alone is looked up)
SetDefault(c, userId, locationId) ==
  /\ calls[c] = Idle
  /\ \E l \in db.userLocations : l.id = locationId
  /\ calls' = Started(c, "setDefault", userId, locationId, "unset")
  /\ UNCHANGED <<detector, db, tracking, geo>>

\* the first await of setDefault: the modify is done, or is rejected and the
\* catch returns the error
SetDefaultUnset(c, ok) ==
  /\ calls[c].pc = "unset"
  /\ db' = IF ok
           THEN [db EXCEPT !.userLocations = modifyDefaultFalse(@, calls[c].userId)]
           ELSE db
  /\ calls' = Stepped(c, IF ok THEN "set" ELSE "returned", ~ ok, ok)
  /\ UNCHANGED <<detector, tracking, geo>>

\* the second await of setDefault, and the return
SetDefaultSet(c, ok) ==
  /\ calls[c].pc = "set"
  /\ db' = IF ok
           THEN [db EXCEPT !.userLocations = updateDefaultTrue(@, calls[c].locationId)]
           ELSE db
  /\ calls' = Stepped(c, "returned", ~ ok, ok)
  /\ UNCHANGED <<detector, tracking, geo>>

\* clearAllData(userId) is called
ClearAllData(c, userId) ==
  /\ calls[c] = Idle
  /\ calls' = Started(c, "clearAllData", userId, 0, "locations")
  /\ UNCHANGED <<detector, db, tracking, geo>>

\* the first await of clearAllData
ClearLocations(c, ok) ==
  /\ calls[c].pc = "locations"
  /\ db' = IF ok
           THEN [db EXCEPT !.userLocations = deleteOf(@, calls[c].userId)]
           ELSE db
  /\ calls' = Stepped(c, IF ok THEN "detections" ELSE "returned", ~ ok, ok)
  /\ UNCHANGED <<detector, tracking, geo>>

\* the second await of clearAllData
ClearDetections(c, ok) ==
  /\ calls[c].pc = "detections"
  /\ db' = IF ok
           THEN [db EXCEPT !.transitDetections = deleteOf(@, calls[c].userId)]
           ELSE db
  /\ calls' = Stepped(c, IF ok THEN "preferences" ELSE "returned", ~ ok, ok)
  /\ UNCHANGED <<detector, tracking, geo>>

\* the third await of clearAllData, and the return
ClearPreferences(c, ok) ==
  /\ calls[c].pc = "preferences"
  /\ db' = IF ok
           THEN [db EXCEPT !.userPreferences = deleteKey(@, calls[c].userId)]
           ELSE db
  /\ calls' = Stepped(c, "returned", ~ ok, ok)
  /\ UNCHANGED <<detector, tracking, geo>>

\* a session on a database that holds records, with no call made yet
DatabaseInit ==
  /\ DetectorStart
  /\ db \in Databases
  /\ calls = [c \in Callers |-> Idle]
  /\ tracking = TrackingStart
  /\ geo = GeolocationStart

DatabaseNext ==
  \/ \E c \in Callers : \E locationId \in 1..MaxRecords :
       SetDefault(c, CurrentUser, locationId)
  \/ \E c \in Callers : \E ok \in BOOLEAN : SetDefaultUnset(c, ok)
  \/ \E c \in Callers : \E ok \in BOOLEAN : SetDefaultSet(c, ok)
  \/ \E c \in Callers : ClearAllData(c, CurrentUser)
  \/ \E c \in Callers : \E ok \in BOOLEAN : ClearLocations(c, ok)
  \/ \E c \in Callers : \E ok \in BOOLEAN : ClearDetections(c, ok)
  \/ \E c \in Callers : \E ok \in BOOLEAN : ClearPreferences(c, ok)

DatabaseSpec == DatabaseInit /\ [][DatabaseNext]_vars

\* ------------------------------------------------------ useFlightTracking
MaxTimers == 3
MaxRequests == 2

\* the time that passes in a step of the clock, in milliseconds
ClockStepMs == 10000

\* latitude and longitude are in ten-thousandths of a degree, elevation in
\* metres: 0.001 degrees is 10
ThousandthDegree == 10

\* the observers the hook is given: one, one that differs from it by less
\* than the thresholds, and one farther away
TrackedObservers ==
  { [latitude |-> 0, longitude |-> 0, elevation |-> 0],
    [latitude |-> 5, longitude |-> -5, elevation |-> 50],
    [latitude |-> 20, longitude |-> 0, elevation |-> 0] }

RadiusChoices == {50, 100}
ADSBDataSource == {"opensky", "adsb-one"}

\* the 60 s of every source
updateIntervalFixed(dataSource) == 60000
\* DATA_SOURCES[dataSource].updateInterval
updateInterval(dataSource) == IF dataSource = "opensky" THEN 60000 ELSE 10000

\* clearInterval(id)
clearInterval(timers, id) == { x \in timers : x.id # id }

\* an effect that returns no cleanup function
cleanupEffectOmitted(t) == [t EXCEPT !.cleanup = FALSE]
\* the function the effect has returned, which React calls before the next
\* run of the effect and at unmount
cleanupEffect(t) ==
  IF t.cleanup /\ t.intervalRef # 0
  THEN [t EXCEPT !.timers = clearInterval(@, t.intervalRef),
                 !.intervalRef = 0, !.cleanup = FALSE]
  ELSE [t EXCEPT !.cleanup = FALSE]

\* hasObserverChanged
hasObserverChanged(lastObserver, obs) ==
  \/ lastObserver = NoObserver
  \/ Abs(lastObserver.latitude - obs.latitude) > ThousandthDegree
  \/ Abs(lastObserver.longitude - obs.longitude) > ThousandthDegree
  \/ Abs(lastObserver.elevation - obs.elevation) > 100

\* what fetchFlights has captured: the props of the render of its effect
Closure(t) == [observer |-> t.observer, radiusKm |-> t.radiusKm, dataSource |-> t.dataSource]

\* what the calls of fetchFlights can have captured
Closures ==
  [observer : TrackedObservers, radiusKm : RadiusChoices, dataSource : ADSBDataSource]

\* fetchFlights up to its await: loading, no error, and a request under way
\* (the requests under way are kept as the set of what they were started
\* with)
fetchFlights(t, closure) ==
  [t EXCEPT !.loading = (t.mounted \/ @), !.error = (~ t.mounted /\ @),
            !.requests = @ \cup {closure},
            !.last = [kind |-> "fetch"]]

\* the id setInterval returns: one that no active timer has
newTimerId(timers) ==
  CHOOSE id \in 1..(Cardinality(timers) + 1) : \A x \in timers : x.id # id

\* setInterval(callback, period), the callback kept as what it has captured
setInterval(timers, closure, period) ==
  timers \cup {[id |-> newTimerId(timers), period |-> period, remaining |-> period,
                closure |-> closure]}

\* the timers once the existing interval, if any, is cleared
existingCleared(t) ==
  IF t.intervalRef # 0 THEN clearInterval(t.timers, t.intervalRef) ELSE t.timers

\* the effect from the clearing of the existing interval on
startPolling(t) ==
  [fetchFlights(t, Closure(t)) EXCEPT
     !.lastObserverRef = t.observer,
     !.timers = setInterval(existingCleared(t), Closure(t), updateInterval(t.dataSource)),
     !.intervalRef = newTimerId(existingCleared(t)),
     !.cleanup = TRUE]

\* the body of the effect, on the props of the render
effect(t) ==
  IF t.observer = NoObserver
  THEN IF t.intervalRef # 0
       THEN [t EXCEPT !.timers = clearInterval(@, t.intervalRef), !.intervalRef = 0]
       ELSE t
  ELSE IF ~ hasObserverChanged(t.lastObserverRef, t.observer) /\ t.intervalRef # 0
  THEN t
  ELSE startPolling(t)

\* a commit of the component: the cleanup of the previous run of the effect,
\* then the effect
commit(t) == effect(cleanupEffect(t))

\* what a commit did, for the properties: whether only the observer changed,
\* by how much, whether a timer was running, and whether the commit
\* started a fetch and touched the timers
EffectEvent(before, after) ==
  [kind |-> "effect",
   onlyObserver |-> /\ before.mounted
                    /\ before.radiusKm = after.radiusKm
                    /\ before.dataSource = after.dataSource,
   small |-> /\ after.observer # NoObserver
             /\ before.lastObserverRef # NoObserver
             /\ ~ hasObserverChanged(before.lastObserverRef, after.observer),
   polling |-> before.timers # {},
   fetched |-> after.last.kind = "fetch",
   restarted |-> after.timers # before.timers]

\* the hook after the commit of a render, with what the commit did
Committed(before, rendered) ==
  [commit(rendered) EXCEPT !.last = EffectEvent(before, commit(rendered))]

\* the effects the model follows: a bound on the timers made and on the
\* fetches under way
WithinBounds ==
  /\ Cardinality(tracking.timers) < MaxTimers
  /\ Cardinality(tracking.requests) < MaxRequests

\* the first render and commit
Mount(obs, radiusKm, dataSource) ==
  /\ ~ tracking.mounted
  /\ ~ tracking.unmounted
  /\ WithinBounds
  /\ tracking' = Committed(tracking, [tracking EXCEPT !.mounted = TRUE, !.observer = obs,
                                                      !.radiusKm = radiusKm,
                                                      !.dataSource = dataSource,
                                                      !.last = NoEvent])
  /\ UNCHANGED <<detector, db, calls, geo>>

\* a render with a dependency of the effect changed
Render(obs, radiusKm, dataSource) ==
  /\ tracking.mounted
  /\ <<obs, radiusKm, dataSource>>
       # <<tracking.observer, tracking.radiusKm, tracking.dataSource>>
  /\ WithinBounds
  /\ tracking' = Committed(tracking, [tracking EXCEPT !.observer = obs,
                                                      !.radiusKm = radiusKm,
                                                      !.dataSource = dataSource,
                                                      !.last = NoEvent])
  /\ UNCHANGED <<detector, db, calls, geo>>

\* the component is unmounted: React calls the cleanup
Unmount ==
  /\ tracking.mounted
  /\ tracking' = [cleanupEffect(tracking) EXCEPT !.mounted = FALSE, !.unmounted = TRUE,
                                                 !.last = [kind |-> "unmount"]]
  /\ UNCHANGED <<detector, db, calls, geo>>

\* the clock advances while no timer is due
Advance ==
  /\ tracking.timers # {}
  /\ \A x \in tracking.timers : x.remaining > 0
  /\ tracking' = [tracking EXCEPT
       !.timers = { [x EXCEPT !.remaining = @ - ClockStepMs] : x \in tracking.timers },
       !.last = [kind |-> "advance"]]
  /\ UNCHANGED <<detector, db, calls, geo>>

\* a timer of setInterval is due, its period after it was set or was last
\* due: its fetchFlights runs
TimerFires(id) ==
  /\ Cardinality(tracking.requests) < MaxRequests
  /\ \E x \in tracking.timers :
       /\ x.id = id
       /\ x.remaining = 0
       /\ tracking' = [fetchFlights(tracking, x.closure) EXCEPT
            !.timers = (@ \ {x}) \cup {[x EXCEPT !.remaining = x.period]},
            !.last = [kind |-> "timer", elapsed |-> x.period,
                      dataSource |-> x.closure.dataSource]]
  /\ UNCHANGED <<detector, db, calls, geo>>

\* fetchFlights after its await: a request under way is answered, or
\* fails; the setters of a component that is unmounted do nothing
FetchResponds(request, ok) ==
  /\ request \in tracking.requests
  /\ tracking' = [tracking EXCEPT
       !.requests = @ \ {request},
       !.flights = IF tracking.mounted /\ ok THEN request ELSE @,
       !.flightPositions = IF tracking.mounted /\ ok THEN request.observer ELSE @,
       !.error = IF tracking.mounted THEN ~ ok ELSE @,
       !.loading = IF tracking.mounted THEN FALSE ELSE @,
       !.last = [kind |-> "response", applied |-> tracking.mounted /\ ok]]
  /\ UNCHANGED <<detector, db, calls, geo>>

TrackingInit ==
  /\ DetectorStart
  /\ AppStart

TrackingNext ==
  \/ \E obs \in TrackedObservers \cup {NoObserver} : \E radiusKm \in RadiusChoices :
       \E dataSource \in ADSBDataSource : Mount(obs, radiusKm, dataSource)
  \/ \E obs \in TrackedObservers \cup {NoObserver} : \E radiusKm \in RadiusChoices :
       \E dataSource \in ADSBDataSource : Render(obs, radiusKm, dataSource)
  \/ Unmount
  \/ Advance
  \/ \E id \in 1..MaxTimers : TimerFires(id)
  \/ \E request \in Closures : \E ok \in BOOLEAN : FetchResponds(request, ok)

TrackingSpec == TrackingInit /\ [][TrackingNext]_vars

\* --------------------------------------------------------- useGeolocation
\* metres
MIN_LOCATION_CHANGE == 100

\* R * pi / 180 with R = 6371000: the metres of a degree of a great circle
MetersPerDegreeOfArc == 111195

\* the fixes of the watch, on one meridian; latitude and longitude are in
\* ten-thousandths of a degree, and coords.altitude is a number of metres
\* or null
Fixes ==
  { [latitude |-> lat, longitude |-> 0, altitude |-> alt] :
      lat \in {0, 5, 20, 25, 40}, alt \in {Null, [metres |-> 120], [metres |-> 350]} }

\* err.message of the error callback
ErrorMessages == {"User denied Geolocation", "Timeout expired"}

\* calculateDistance: the haversine distance of two points, which between
\* points of one meridian is R times the difference of the latitudes in
\* radians
calculateDistance(lat1, lon1, lat2, lon2) ==
  (Abs(lat2 - lat1) * MetersPerDegreeOfArc) \div (1000 * ThousandthDegree)

\* shouldUpdate
shouldUpdate(lastPosition, newLat, newLon) ==
  \/ lastPosition = NoObserver
  \/ calculateDistance(lastPosition.lat, lastPosition.lon, newLat, newLon)
       > MIN_LOCATION_CHANGE

\* position.coords.altitude || 0
altitudeOrZero(altitude) == IF altitude = Null THEN 0 ELSE altitude.metres

\* the effect of the first commit: the watch is set up, if the browser has
\* geolocation
MountGeolocation(supported) ==
  /\ ~ geo.mounted
  /\ geo = GeolocationStart
  /\ geo' = IF supported
            THEN [geo EXCEPT !.mounted = TRUE, !.watching = TRUE]
            ELSE [geo EXCEPT !.mounted = TRUE,
                             !.error = "Geolocation is not supported by your browser",
                             !.loading = FALSE]
  /\ UNCHANGED <<detector, db, calls, tracking>>

\* the success callback of watchPosition
PositionCallback(position) ==
  /\ geo.watching
  /\ geo' = IF shouldUpdate(geo.lastPositionRef, position.latitude, position.longitude)
            THEN [geo EXCEPT
                    !.observer = [latitude |-> position.latitude,
                                  longitude |-> position.longitude,
                                  elevation |-> altitudeOrZero(position.altitude)],
                    !.lastPositionRef = [lat |-> position.latitude,
                                         lon |-> position.longitude],
                    !.error = "null",
                    !.loading = FALSE,
                    !.last = [kind |-> "position", accepted |-> TRUE]]
            ELSE [geo EXCEPT !.loading = FALSE,
                             !.last = [kind |-> "position", accepted |-> FALSE]]
  /\ UNCHANGED <<detector, db, calls, tracking>>

\* the error callback of watchPosition
ErrorCallback(message) ==
  /\ geo.watching
  /\ geo' = [geo EXCEPT !.error = message, !.loading = FALSE,
                        !.last = [kind |-> "error"]]
  /\ UNCHANGED <<detector, db, calls, tracking>>

\* the cleanup of the effect at unmount: clearWatch
UnmountGeolocation ==
  /\ geo.mounted
  /\ geo' = [geo EXCEPT !.mounted = FALSE, !.watching = FALSE,
                        !.last = [kind |-> "unmount"]]
  /\ UNCHANGED <<detector, db, calls, tracking>>

GeolocationInit ==
  /\ DetectorStart
  /\ AppStart

GeolocationNext ==
  \/ \E supported \in BOOLEAN : MountGeolocation(supported)
  \/ \E position \in Fixes : PositionCallback(position)
  \/ \E message \in ErrorMessages : ErrorCallback(message)
  \/ UnmountGeolocation

GeolocationSpec == GeolocationInit /\ [][GeolocationNext]_vars

\* -------------------------------------------------------------- properties
\* the predictions of the recorded pass
Emitted == IF pass.done THEN { pass.out[i] : i \in DOMAIN pass.out } ELSE {}

\* the provider's position of the pass's body at an instant
BodyAt(time) == calculateBodyPosition(pass.body, observer, time)

\* the instant of the sample s seconds ahead
SampleTime(s) == pass.currentTime + s * 1000

\* the aircraft's horizontal position s seconds ahead
FlightAt(flight, s) == horizontalOf(observer, PredictedPositions[flight][s])

\* the samples of the window (of an endless window, those the model follows)
Sampled ==
  { s \in 0..Min2(config.predictionWindowSeconds, MaxWindow) : s % timeStep = 0 }

\* the samples the search does not skip: body and aircraft not below 0
Considered(flight) ==
  { s \in Sampled : /\ BodyAt(SampleTime(s)) # Unavailable
                    /\ ~ (BodyAt(SampleTime(s)).altitude < 0)
                    /\ ~ (FlightAt(flight, s).altitude < 0) }

\* the separation of body and aircraft at a sample
SeparationAt(flight, s) ==
  calculateAngularSeparation(BodyAt(SampleTime(s)).altitude, BodyAt(SampleTime(s)).azimuth,
    FlightAt(flight, s).altitude, FlightAt(flight, s).azimuth)

\* C1: every prediction of a pass has the body above the horizon (altitude
\* > 0) and the aircraft above the horizon (altitude > 0) at the moment of
\* closest approach, and a separation not above config.maxAngularSeparation.
EmittedAboveHorizonWithinLimit ==
  \A p \in Emitted :
    /\ BodyAt(p.transitTime).altitude > 0
    /\ p.flightAltitude > 0
    /\ p.angularSeparation <= config.maxAngularSeparation

EarliestSampleWinsTies ==
  \A p \in Emitted :
    \A u \in Considered(p.flight) :
      SeparationAt(p.flight, u) = p.angularSeparation => p.transitTime <= SampleTime(u)

\* two samples attain the minimum
MinimumAttainedTwice ==
  \E p \in Emitted :
    \E u \in Considered(p.flight) :
      /\ SeparationAt(p.flight, u) = p.angularSeparation
      /\ SampleTime(u) > p.transitTime

\* the aircraft of the list whose current altitude is negative
BelowNow == { flights[i].icao24 : i \in { j \in DOMAIN flights :
                FlightPositions[observer][flights[j]].altitude < 0 } }

\* C4: an aircraft whose current altitude is negative gets no extrapolation
\* and no provider call, and is in no prediction.
NegativeAltitudeExcluded ==
  pass.done =>
    /\ \A i \in DOMAIN pass.extrapolations : pass.extrapolations[i][1] \notin BelowNow
    /\ \A i \in DOMAIN pass.providerCalls : pass.providerCalls[i][1] \notin BelowNow
    /\ \A p \in Emitted : p.flight.icao24 \notin BelowNow

\* a pass over a list with an aircraft below the horizon and one searched
ExcludedBesideSearched ==
  /\ pass.done
  /\ BelowNow # {}
  /\ pass.providerCalls # <<>>
  /\ pass.out # <<>>

\* C5: the list of a pass is in ascending order of timeToTransit and holds
\* only predictions with confidenceScore >= config.minConfidenceScore.
SortedAndConfident ==
  pass.done =>
    /\ \A i, j \in DOMAIN pass.out :
         i < j => pass.out[i].timeToTransit <= pass.out[j].timeToTransit
    /\ \A i \in DOMAIN pass.out :
         /\ pass.out[i].confidenceScore # NaN
         /\ pass.out[i].confidenceScore >= config.minConfidenceScore

\* the position of an aircraft in the list given to the pass
IndexOf(flight) == CHOOSE i \in DOMAIN flights : flights[i] = flight

\* two predictions come out in the reverse of their aircraft's order
ReorderedByTime ==
  /\ pass.done
  /\ Len(pass.out) = 2
  /\ pass.out[1].timeToTransit < pass.out[2].timeToTransit
  /\ IndexOf(pass.out[1].flight) > IndexOf(pass.out[2].flight)

\* two consecutive passes are given the same body, body position and current
\* timestamp (the observer, the aircraft list and the configuration are the
\* session's, unchanged between them)
SamePassInputs ==
  /\ pass.done
  /\ pass'.done
  /\ pass'.body = pass.body
  /\ pass'.bodyPosition = pass.bodyPosition
  /\ pass'.currentTime = pass.currentTime
  /\ observer' = observer
  /\ flights' = flights
  /\ config' = config

\* C6: two passes with identical observer, aircraft list, body position,
\* configuration and current timestamp return identical lists, whatever the
\* wall-clock time of each.
IdenticalInputsIdenticalOutput ==
  [][SamePassInputs => pass'.out = pass.out]_vars

\* C7: the confidenceScore of every prediction of a pass lies in [0, 1].
ConfidenceInUnitInterval ==
  \A p \in Emitted :
    /\ p.confidenceScore # NaN
    /\ p.confidenceScore >= 0
    /\ p.confidenceScore <= ConfOne

\* a prediction whose product of factors is above 1 is emitted with score 1
\* under a configuration that accepts every score
ClampedScoreEmitted ==
  /\ config.minConfidenceScore <= 0
  /\ \E p \in Emitted :
       /\ p.angularSeparation = 0
       /\ p.confidenceScore = ConfOne

\* the product of the five factors, clamped to [0, 1], for a prediction, an
\* angular diameter of the body and an age of the aircraft's data
ClampedProduct(p, angularDiameter, age) ==
  LET separation == ((config.maxAngularSeparation - p.angularSeparation) * ConfUnit)
                      \div config.maxAngularSeparation
      disk == IF 2 * p.angularSeparation <= angularDiameter THEN 12 ELSE 10
      speed == IF 0 < p.flight.velocity /\ p.flight.velocity < 1000 THEN 10 ELSE 8
      freshness == IF age < 10000 THEN 10 ELSE IF age < 30000 THEN 9 ELSE 7
      current == FlightPositions[observer][p.flight].altitude
      visibility == IF current > 10 * Deg THEN 11 ELSE IF current > 5 * Deg THEN 10 ELSE 8
      product == separation * disk * speed * freshness * visibility
  IN IF product < 0 THEN 0 ELSE IF product > ConfOne THEN ConfOne ELSE product

\* C8: the score is the clamped product of the five factors, the data age
\* being the pass's current timestamp minus the aircraft's lastUpdate (the
\* disk factor is taken with the angular diameter the pass was given).
ConfidenceUsesPassTimestamp ==
  \A p \in Emitted :
    /\ config.maxAngularSeparation # 0
    /\ p.confidenceScore =
         ClampedProduct(p, pass.bodyPosition.angularDiameter,
                        pass.currentTime - p.flight.lastUpdate * 1000)

\* C9: the disk bonus is decided with the provider's angular diameter of the
\* body at transitTime (the data age is taken from the wall clock of the pass).
DiskBonusUsesDiameterAtTransit ==
  \A p \in Emitted :
    /\ config.maxAngularSeparation # 0
    /\ p.confidenceScore =
         ClampedProduct(p, BodyAt(p.transitTime).angularDiameter,
                        pass.now - p.flight.lastUpdate * 1000)

\* C10: bodyAltitude and bodyAzimuth are the provider's coordinates of the
\* body at transitTime.
BodyCoordinatesAtTransit ==
  \A p \in Emitted :
    /\ p.bodyAltitude = BodyAt(p.transitTime).altitude
    /\ p.bodyAzimuth = BodyAt(p.transitTime).azimuth

\* C11: with predictionWindowSeconds = 0 a pass returns no prediction,
\* whatever the aircraft and the body's position.
ZeroWindowNoPredictions ==
  pass.done /\ config.predictionWindowSeconds = 0 => pass.out = <<>>

\* the provider calls of the recorded pass for which it had no value
UnavailableCalls ==
  { i \in DOMAIN pass.providerCalls : BodyAt(pass.providerCalls[i][2]) = Unavailable }

\* C12: when the provider has no value for a sample's instant, the search
\* skips the sample and goes on with the later samples of the window, and the
\* pass returns a list.
UnavailableSampleSkipped ==
  pass.done /\ UnavailableCalls # {} =>
    /\ pass.returned
    /\ \A i \in UnavailableCalls :
         \A s \in Sampled :
           SampleTime(s) > pass.providerCalls[i][2] =>
             \E j \in DOMAIN pass.providerCalls :
               pass.providerCalls[j] = <<pass.providerCalls[i][1], SampleTime(s)>>

\* the body is below the horizon (altitude < 0) at every sample of the window
BodyBelowThroughout ==
  \A s \in Sampled :
    /\ BodyAt(SampleTime(s)) # Unavailable
    /\ BodyAt(SampleTime(s)).altitude < 0

\* C13: when the body's altitude is negative at every sample of the window,
\* the pass returns no prediction, whatever the aircraft and whatever the
\* body position the pass was given.
NoPredictionWhileBodyBelow ==
  pass.done /\ BodyBelowThroughout => pass.out = <<>>

\* the body was above the horizon when the caller read it and is below at
\* every sample, and a searched aircraft is above the horizon and within the
\* limit of the body at a sample
BodyBelowAircraftWithinLimit ==
  /\ pass.done
  /\ BodyBelowThroughout
  /\ pass.bodyPosition.altitude > 0
  /\ \E i \in DOMAIN pass.extrapolations :
       \E j \in DOMAIN flights :
         /\ flights[j].icao24 = pass.extrapolations[i][1]
         /\ FlightAt(flights[j], pass.extrapolations[i][2]).altitude >= 0
         /\ SeparationAt(flights[j], pass.extrapolations[i][2]) <= config.maxAngularSeparation

\* C14: a pass returns at most one prediction for each aircraft of the list,
\* every prediction is of an aircraft of the list, and an empty list gives
\* an empty list of predictions.
OnePredictionPerAircraft ==
  pass.done =>
    /\ \A i \in DOMAIN pass.out : \E j \in DOMAIN flights : pass.out[i].flight = flights[j]
    /\ \A i, k \in DOMAIN pass.out : i # k => pass.out[i].flight # pass.out[k].flight
    /\ Len(pass.out) <= Len(flights)
    /\ (flights = <<>> => pass.out = <<>>)

\* a pass over two aircraft returns a prediction for each
EveryAircraftPredicted ==
  /\ pass.done
  /\ Len(flights) = 2
  /\ \A j \in DOMAIN flights : \E i \in DOMAIN pass.out : pass.out[i].flight = flights[j]

\* a step that is a pass
PassStep == pass'.done /\ pass' # pass

ConfigFields == {"maxAngularSeparation", "predictionWindowSeconds", "minConfidenceScore"}

\* the defaults: 0.5 degrees, 600 s, 0.3
DocumentedDefaults ==
  [maxAngularSeparation |-> Deg \div 2, predictionWindowSeconds |-> 600,
   minConfidenceScore |-> (3 * ConfOne) \div 10]

\* the configuration that has the fields of the partial one as supplied, and
\* every other field as in base
Overridden(base, partial) ==
  [k \in ConfigFields |-> IF k \in DOMAIN partial THEN partial[k] ELSE base[k]]

GetConfigReturnsCopy ==
  /\ \A i \in DOMAIN copies : ~ copies[i].shared
  /\ call.name = "getConfig" => copies[Len(copies)].value = config
  /\ call.name = "modify" => config = call.before

\* two objects were returned and one of them modified
ReturnedObjectModified ==
  /\ call.name = "modify"
  /\ Len(copies) = 2
  /\ copies[1].value # copies[2].value
  /\ \E i \in DOMAIN copies : copies[i].value = config

\* the text of a whole number of seconds: "Ns" below 60, "Mm Ss" below 3600,
\* "Hh Mm" from 3600 on
TextOfWholeSeconds(n) ==
  IF n < 60 THEN <<n, "s">>
  ELSE IF n < 3600 THEN <<n \div 60, "m", n % 60, "s">>
  ELSE <<n \div 3600, "h", (n % 3600) \div 60, "m">>

\* C18: formatTimeToTransit rounds its argument to the nearest whole second
\* and formats that: "Ns" below 60, "Mm Ss" with S in 0..59 from 60 to 3599,
\* "Hh Mm" with M in 0..59 from 3600 on.
FormatRoundsToWholeSeconds ==
  call.name = "formatTimeToTransit" /\ call.returned =>
    call.text = TextOfWholeSeconds(Round(call.seconds))

\* the samples the pass has examined for an aircraft
Examined(icao24) ==
  { i \in DOMAIN pass.extrapolations : pass.extrapolations[i][1] = icao24 }

\* window / step samples, the sample at 0 counted
SamplesOfWindow == config.predictionWindowSeconds \div timeStep + 1

\* C19: every pass ends, for every aircraft list and every configuration,
\* having examined for each aircraft at most window / step samples, and so
\* at most that many times the length of the aircraft list in all.
EveryPassEnds ==
  /\ ~ Hung
  /\ pass.done =>
    /\ \A j \in DOMAIN flights :
         Cardinality(Examined(flights[j].icao24)) <= SamplesOfWindow
    /\ Len(pass.extrapolations) <= Len(flights) * SamplesOfWindow
    /\ Len(pass.providerCalls) <= Len(flights) * SamplesOfWindow

\* C20: the separation of A and B is the separation of B and A, and the
\* separation of a position and itself is 0.
SeparationIsSymmetric ==
  call.name = "calculateAngularSeparation" /\ call.returned =>
    /\ call.ab = call.ba
    /\ call.aa = 0

\* the separation of two positions that differ in altitude and in azimuth
SeparationOfDistinctPositions ==
  /\ call.name = "calculateAngularSeparation"
  /\ call.returned
  /\ call.a.altitude # call.b.altitude
  /\ call.a.azimuth # call.b.azimuth
  /\ call.ab > 0
  /\ call.ab < 180 * Deg

\* the samples at which the body or the extrapolated aircraft is at or below
\* the horizon
AtOrBelowHorizon(flight) ==
  { s \in Sampled : /\ BodyAt(SampleTime(s)) # Unavailable
                    /\ \/ BodyAt(SampleTime(s)).altitude <= 0
                       \/ FlightAt(flight, s).altitude <= 0 }

\* the aircraft of the list the pass has searched
Searched == { j \in DOMAIN flights : Examined(flights[j].icao24) # {} }

\* C24: a sample with the body or the extrapolated aircraft at or below the
\* horizon does not end the search of the window: every later sample is
\* extrapolated and asked of the provider, and the separation of a
\* prediction is not above that of a later sample the search considers.
SkippedSampleKeepsScanning ==
  pass.done /\ pass.returned =>
    \A j \in Searched :
      \A s \in AtOrBelowHorizon(flights[j]) :
        \A u \in Sampled :
          u > s =>
            /\ \E i \in DOMAIN pass.extrapolations :
                 pass.extrapolations[i] = <<flights[j].icao24, u>>
            /\ \E i \in DOMAIN pass.providerCalls :
                 pass.providerCalls[i] = <<flights[j].icao24, SampleTime(u)>>
            /\ \A p \in Emitted :
                 p.flight = flights[j] /\ u \in Considered(flights[j]) =>
                   p.angularSeparation <= SeparationAt(flights[j], u)

\* the closest approach of a prediction is at a sample later than one with
\* the body or the aircraft below the horizon
ClosestApproachAfterSkippedSample ==
  \E p \in Emitted :
    \E s \in AtOrBelowHorizon(p.flight) :
      /\ SampleTime(s) < p.transitTime
      /\ \/ BodyAt(SampleTime(s)).altitude < 0
         \/ FlightAt(p.flight, s).altitude < 0


\* C26: every prediction has timeToTransit = (transitTime - currentTime) /
\* 1000, a multiple of the 5 s step that is not negative and not above
\* predictionWindowSeconds.
TimeToTransitIsSampleOffset ==
  \A p \in Emitted :
    /\ p.timeToTransit * 1000 = p.transitTime - pass.currentTime
    /\ p.timeToTransit % timeStep = 0
    /\ 0 <= p.timeToTransit
    /\ p.timeToTransit <= config.predictionWindowSeconds

\* a prediction of a later sample, in a pass whose currentTime is not the
\* clock's reading
LaterSamplePredictedOffClock ==
  \E p \in Emitted :
    /\ p.timeToTransit > 0
    /\ pass.currentTime # pass.now


\* the contexts whose call of name has returned { error: null } with no
\* write of the other context since it was called
ReturnedAlone(name) ==
  { c \in Callers : /\ calls[c] # Idle
                    /\ calls[c].name = name
                    /\ calls[c].pc = "returned"
                    /\ ~ calls[c].error
                    /\ ~ calls[c].disturbed }

OfOthers(table, userId) == { r \in table : r.user_id # userId }

\* C22: clearAllData(userId) removes every location, detection and
\* preference record of userId, so that isFirstTime(userId) is true, and
\* leaves the records of every other user as they were.
ClearAllDataRemovesOwnRecordsOnly ==
  \A c \in ReturnedAlone("clearAllData") :
    /\ whereUser(db.userLocations, calls[c].userId) = {}
    /\ whereUser(db.transitDetections, calls[c].userId) = {}
    /\ whereUser(db.userPreferences, calls[c].userId) = {}
    /\ isFirstTime(calls[c].userId)
    /\ OfOthers(db.userLocations, calls[c].userId)
         = OfOthers(calls[c].before.userLocations, calls[c].userId)
    /\ OfOthers(db.transitDetections, calls[c].userId)
         = OfOthers(calls[c].before.transitDetections, calls[c].userId)
    /\ OfOthers(db.userPreferences, calls[c].userId)
         = OfOthers(calls[c].before.userPreferences, calls[c].userId)

\* clearAllData has returned for a user who had a record in each table,
\* beside another user who had a record in each table
ClearedBesideOtherUser ==
  \E c \in ReturnedAlone("clearAllData") :
    /\ whereUser(calls[c].before.userLocations, calls[c].userId) # {}
    /\ whereUser(calls[c].before.transitDetections, calls[c].userId) # {}
    /\ whereUser(calls[c].before.userPreferences, calls[c].userId) # {}
    /\ OfOthers(db.userLocations, calls[c].userId) # {}
    /\ OfOthers(db.transitDetections, calls[c].userId) # {}
    /\ OfOthers(db.userPreferences, calls[c].userId) # {}

\* the locations of the user that are the default
Defaults(userId) == { l \in whereUser(db.userLocations, userId) : l.is_default }

\* the two contexts have each completed a setDefault of the same user for a
\* location of that user, without error, and the calls overlapped
OverlappedSetDefaults ==
  /\ \A c \in Callers :
       /\ calls[c] # Idle
       /\ calls[c].name = "setDefault"
       /\ calls[c].pc = "returned"
       /\ ~ calls[c].error
       /\ calls[c].overlapped
       /\ \E l \in whereUser(db.userLocations, calls[c].userId) :
            l.id = calls[c].locationId
  /\ \A c, o \in Callers : calls[c].userId = calls[o].userId

\* C29: two setDefault calls of the same user that overlap leave exactly
\* one location of that user with is_default = true once both have
\* completed.
OverlappingSetDefaultsLeaveOneDefault ==
  OverlappedSetDefaults => Cardinality(Defaults(CurrentUser)) = 1


\* the update frequency the documentation gives for a data source
DocumentedInterval(dataSource) == IF dataSource = "adsb-one" THEN 10 * 1000 ELSE 60 * 1000

SmallObserverChangeIgnored ==
  /\ tracking.last.kind = "effect"
  /\ tracking.last.onlyObserver
  /\ tracking.last.small
  /\ tracking.last.polling
  => ~ tracking.last.fetched /\ ~ tracking.last.restarted

\* C27: at most one interval timer is active at every moment, and none
\* once the component has unmounted.
AtMostOneTimer ==
  /\ Cardinality(tracking.timers) <= 1
  /\ ~ tracking.mounted => tracking.timers = {}

\* the component is unmounted while it was polling, after its effect has
\* run for two sets of props
UnmountedAfterRestarts ==
  /\ tracking.unmounted
  /\ tracking.last.kind = "unmount"
  /\ tracking.intervalRef = 0
  /\ tracking.lastObserverRef # NoObserver
  /\ \E request \in tracking.requests :
       request.dataSource # tracking.dataSource /\ request.radiusKm # tracking.radiusKm

\* C28: after the observer or the data source has changed, no response of a
\* fetch started for the previous observer or data source is written to
\* flights and flightPositions.
StaleResponseNeverApplied ==
  /\ tracking.last.kind = "response"
  /\ tracking.last.applied
  /\ tracking.observer # NoObserver
  =>
    /\ tracking.flights.observer = tracking.observer
    /\ tracking.flights.dataSource = tracking.dataSource
    /\ tracking.flightPositions = tracking.observer


\* C30: whenever the most recent callback of the watch delivered a position,
\* the hook's error is null, also when the fix is within 100 m of the last
\* accepted position.
ErrorNullAfterPosition ==
  geo.last.kind = "position" => geo.error = "null"

====
